---- MODULE Spec2Model ----
(***************************************************************************)
(* ConnectorManager (utils/connector_manager.py): the cache of connector   *)
(* instances, their recorders and background task handles, driven by       *)
(* asyncio callers.  One action is one run of a coroutine between two      *)
(* suspension points (an await on a collaborator); everything the code     *)
(* does between two awaits happens in one step.                            *)
(***************************************************************************)
EXTENDS Integers, Sequences, FiniteSets, TLC

\* ------------------------------------------------------------------ bounds

\* Connector instances ever built by the factory in one run.
MaxConnectors == 2

\* Stored orders of one connector.
MaxOrders == 3

\* Calls of _start_connector_network on one connector.
MaxStarts == 3

\* --------------------------------------------------------------- names

\* Names are sequences of chunks; a chunk stands for a run of characters.
\* The second account name extends the first one, so a prefix test that
\* forgets the ":" separator tells them apart from a correct one.  No
\* account name holds a ":": the key format of line 50 and its parsing by
\* split(":", 1) (lines 222, 235, 488, 647) take that for granted.
Accounts == {<<"a">>, <<"a", "b">>}

\* A live spot venue, a live perpetual venue and a simulated venue.
Venues == {<<"x">>, <<"x", "_perpetual">>, <<"x", "_paper_trade">>}

\* None, or the empty string: both are falsy in the code's tests.
None == <<>>

\* The key sets a caller may store for a connector.
ApiKeySets == {"k1", "k2"}

Procs == {"p1", "p2"}

\* The task handle attributes of a connector, in the order
\* _stop_connector_network visits them.
StopOrder ==
    << "_trading_rules_polling_task", "_trading_fees_polling_task",
       "_status_polling_task", "_user_stream_tracker_task",
       "_user_stream_event_listener_task", "_lost_orders_update_task" >>

\* The handles _start_connector_network sets, in the order it sets them.
StartOrder ==
    << "_trading_rules_polling_task", "_trading_fees_polling_task",
       "_user_stream_tracker_task", "_user_stream_event_listener_task",
       "_lost_orders_update_task" >>

Range(s) == {s[i] : i \in 1..Len(s)}

\* ------------------------------------------------------------- strings

\* str.startswith
StartsWith(s, pre) ==
    Len(s) >= Len(pre) /\ SubSeq(s, 1, Len(pre)) = pre

\* str.endswith
EndsWith(s, suf) ==
    Len(s) >= Len(suf) /\ SubSeq(s, Len(s) - Len(suf) + 1, Len(s)) = suf

\* sub in s
Contains(s, sub) ==
    \E i \in 1..(Len(s) - Len(sub) + 1) : SubSeq(s, i, i + Len(sub) - 1) = sub

\* f"{account_name}:{connector_name}"
CacheKey(account_name, connector_name) ==
    account_name \o <<":">> \o connector_name

\* cache_key.split(":", 1)
SplitKey(cache_key) ==
    LET i == CHOOSE j \in 1..Len(cache_key) :
                 /\ cache_key[j] = ":"
                 /\ \A h \in 1..(j - 1) : cache_key[h] # ":"
    IN  << SubSeq(cache_key, 1, i - 1), SubSeq(cache_key, i + 1, Len(cache_key)) >>

\* connector_name.endswith("_paper_trade")
IsPaperTrade(connector_name) == EndsWith(connector_name, <<"_paper_trade">>)

\* "_perpetual" in connector_name
IsPerpetual(connector_name) == Contains(connector_name, <<"_perpetual">>)

AllKeys == {CacheKey(a, v) : a \in Accounts, v \in Venues}

\* --------------------------------------------------------------- state

VARIABLES
    scope,               \* what this run's calls are drawn from (fixed by Init)
    db_manager,          \* whether the manager was built with a db_manager
    connector_cache,     \* _connector_cache: entries [key, conn] in insertion order
    orders_recorders,    \* _orders_recorders: cache key -> connector the recorder was started on
    funding_recorders,   \* _funding_recorders: cache key -> connector the recorder was started on
    status_polling_tasks,\* _status_polling_tasks: cache keys with a manual polling task
    connectors,          \* every connector instance built so far, by identity 1..Len
    api_keys,            \* the credential store: cache key -> decrypted key set
    proc,                \* the callers: one coroutine each
    active_orders,       \* the records get_active_orders returns for one connector
    in_flight_orders,    \* that connector's in_flight_orders: client order id -> order
    load_pc,             \* where _load_existing_orders_from_database is for it
    handles,             \* one connector's task handle attributes: name -> task or 0
    task_state,          \* the tasks ever made for that connector, by identity 1..Len
    net_call             \* the last _start/_stop_connector_network call on it

managerVars ==
    << scope, db_manager, connector_cache, orders_recorders, funding_recorders,
       status_polling_tasks, connectors, api_keys, proc >>

\* One connector's order reconciliation, taken alone.
ordersVars == << active_orders, in_flight_orders, load_pc >>

\* One connector's background tasks, taken alone.
networkVars == << handles, task_state, net_call >>

vars == << managerVars, ordersVars, networkVars >>

\* ------------------------------------------------------- dict helpers

\* cache_key in self._connector_cache
InCache(cache, cache_key) == \E i \in 1..Len(cache) : cache[i].key = cache_key

\* self._connector_cache[cache_key]
CacheGet(cache, cache_key) ==
    LET i == CHOOSE j \in 1..Len(cache) : cache[j].key = cache_key
    IN  cache[i].conn

\* self._connector_cache[cache_key] = connector: an existing key keeps its
\* place, a new key goes last.
CachePut(cache, cache_key, c) ==
    IF InCache(cache, cache_key)
    THEN [i \in 1..Len(cache) |->
            IF cache[i].key = cache_key THEN [key |-> cache_key, conn |-> c]
            ELSE cache[i]]
    ELSE Append(cache, [key |-> cache_key, conn |-> c])

\* The entries of cache whose key is in keep, in order.
RECURSIVE CacheFilter(_, _)
CacheFilter(cache, keep) ==
    IF cache = <<>> THEN <<>>
    ELSE LET rest == CacheFilter(Tail(cache), keep)
         IN  IF Head(cache).key \in keep THEN <<Head(cache)>> \o rest ELSE rest

CacheKeys(cache) == {cache[i].key : i \in 1..Len(cache)}

CacheConns(cache) == {cache[i].conn : i \in 1..Len(cache)}

\* dict.pop(cache_key, None)
CachePop(cache, cache_key) == CacheFilter(cache, CacheKeys(cache) \ {cache_key})

\* A dict without one key.
MapDel(m, k) == [x \in (DOMAIN m) \ {k} |-> m[x]]

\* A dict with one key set.
MapPut(m, k, val) == [x \in (DOMAIN m) \cup {k} |-> IF x = k THEN val ELSE m[x]]

MapValues(m) == {m[x] : x \in DOMAIN m}

EmptyMap == [x \in {} |-> 0]

\* ----------------------------------------------------------- clear_cache

\* clear_cache with an account test that leaves out the ":" separator.
ClearCacheNoSeparator(cache, account_name, connector_name) ==
    IF account_name # None /\ connector_name # None
    THEN CachePop(cache, CacheKey(account_name, connector_name))
    ELSE IF account_name # None
    THEN CacheFilter(cache,
             {k \in CacheKeys(cache) : ~StartsWith(k, account_name)})
    ELSE <<>>

\* clear_cache(account_name, connector_name): the cache it leaves.
ClearCache(cache, account_name, connector_name) ==
    IF account_name # None /\ connector_name # None
    THEN CachePop(cache, CacheKey(account_name, connector_name))
    ELSE IF account_name # None
    THEN CacheFilter(cache,
             {k \in CacheKeys(cache) : ~StartsWith(k, account_name \o <<":">>)})
    ELSE <<>>

\* ------------------------------------------------------- manager state

\* The manager's dicts and the connector instances, as one value the
\* operations below transform.
Mgr ==
    [cache |-> connector_cache, orders |-> orders_recorders,
     funding |-> funding_recorders, polling |-> status_polling_tasks,
     conns |-> connectors]

\* The connector the factory returns: no task handle set, not yet initialized.
NewConnector(account_name, connector_name, keys) ==
    [account_name |-> account_name, connector_name |-> connector_name,
     api_keys |-> keys, tasks |-> {}, state |-> "initializing", steps |-> << >>]

\* An instance nothing refers to any more.
Collected ==
    [account_name |-> None, connector_name |-> None,
     api_keys |-> "none", tasks |-> {}, state |-> "collected", steps |-> << >>]

\* The instances some caller holds: the one it initializes, the one it got.
Held(pr) == {pr[p].connector : p \in Procs} \cup {pr[p].result : p \in Procs}

\* Garbage collection: an instance that is not cached, that no caller
\* holds, that no recorder was started on and that has no task running is
\* unreachable.
Collect(m, pr) ==
    [m EXCEPT !.conns =
        [c \in 1..Len(m.conns) |->
            IF \/ c \in CacheConns(m.cache)
               \/ c \in Held(pr)
               \/ c \in MapValues(m.orders) \cup MapValues(m.funding)
               \/ m.conns[c].tasks # {}
            THEN m.conns[c] ELSE Collected]]

\* The step's result: the manager as m, the callers as pr.
SetState(m, pr) ==
    LET n == Collect(m, pr)
    IN  /\ connector_cache' = n.cache
        /\ orders_recorders' = n.orders
        /\ funding_recorders' = n.funding
        /\ status_polling_tasks' = n.polling
        /\ connectors' = n.conns
        /\ proc' = pr
        /\ UNCHANGED << scope, db_manager, ordersVars, networkVars >>

\* BackendAPISecurity.api_keys(connector_name) after login_account(account_name).
StoredKeys(creds, account_name, connector_name) ==
    creds[CacheKey(account_name, connector_name)]

\* _create_regular_connector / _create_paper_trading_connector: a live
\* connector is built from the stored keys, a simulated one needs none.
CreateConnector(creds, account_name, connector_name) ==
    IF IsPaperTrade(connector_name)
    THEN NewConnector(account_name, connector_name, "none")
    ELSE NewConnector(account_name, connector_name,
                      StoredKeys(creds, account_name, connector_name))

\* _stop_connector_network: every live handle is cancelled and cleared in
\* StopOrder, inside one try; when the statement for handle failAt raises,
\* the except ends the walk and the handles from there on stay as they are
\* (failAt = 0: nothing raises).
StopNetworkTasks(tasks, failAt) ==
    IF failAt \in 1..Len(StopOrder)
    THEN tasks \ {StopOrder[i] : i \in 1..(failAt - 1)}
    ELSE {}

StopConnectorNetwork(m, c, failAt) ==
    [m EXCEPT !.conns[c].tasks = StopNetworkTasks(@, failAt)]

\* _start_connector_network: stop first, then set the handles in StartOrder;
\* upto = Len(StartOrder) when nothing raises, else the number of handles
\* set before the raise.
StartConnectorNetwork(m, c, upto) ==
    LET stopped == StopConnectorNetwork(m, c, 0)
    IN  [stopped EXCEPT !.conns[c].tasks = @ \cup {StartOrder[i] : i \in 1..upto}]

\* Lines 302-310, 366-376: an orders recorder is created, started on the
\* connector and registered unless the key already has one.
AttachOrdersRecorder(m, cache_key, c) ==
    IF db_manager /\ cache_key \notin DOMAIN m.orders
    THEN [m EXCEPT !.orders = MapPut(@, cache_key, c)]
    ELSE m

\* Lines 313-320: the same for the funding recorder of a perpetual connector.
AttachFundingRecorder(m, cache_key, connector_name, c) ==
    IF db_manager /\ IsPerpetual(connector_name) /\ cache_key \notin DOMAIN m.funding
    THEN [m EXCEPT !.funding = MapPut(@, cache_key, c)]
    ELSE m

\* The steps that ran to their end on c, added to its log.
Ran(m, c, steps) == [m EXCEPT !.conns[c].steps = @ \o steps]

\* _initialize_* returned (line 270): the whole pipeline ran for c.
Initialized(m, c) == [m EXCEPT !.conns[c].state = "initialized"]

\* A line 272 that returns the connector without caching it.
PublishNothing(m, cache_key, c) == m

\* Line 272: the connector is published under its key.
Publish(m, cache_key, c) == [m EXCEPT !.cache = CachePut(@, cache_key, c)]

\* An exception path that publishes the connector all the same.
AbandonPublishes(m, c) ==
    [m EXCEPT !.cache = CachePut(@, CacheKey(m.conns[c].account_name,
                                             m.conns[c].connector_name), c),
              !.conns[c].state = "failed"]

\* An initialization that raised: the connector is dropped by its caller.
Abandon(m, c) == [m EXCEPT !.conns[c].state = "failed"]

\* update_connector_keys, lines 194-203: the keys are stored and decrypted.
UpdateKeysStore(creds, account_name, connector_name, keys) ==
    MapPut(creds, CacheKey(account_name, connector_name), keys)

\* An update_connector_keys that leaves the cache as it is.
UpdateKeysCacheKept(cache, account_name, connector_name) == cache

\* update_connector_keys, line 206: the key's cache entry is cleared.
UpdateKeysCache(cache, account_name, connector_name) ==
    ClearCache(cache, account_name, connector_name)

\* ------------------------------------------------------------- callers

IdleProc ==
    [pc |-> "idle", op |-> "none", account_name |-> None, connector_name |-> None,
     keys |-> "none", connector |-> 0, todo |-> <<>>, pos |-> 0, size |-> 0,
     outcome |-> "none", result |-> 0, failed |-> {}, refreshed |-> {},
     raising |-> {}]

\* A call that ended: what it was and how it ended, until the caller takes
\* the outcome.
DoneCall(op, account_name, connector_name, keys, outcome, result) ==
    [IdleProc EXCEPT !.pc = "done", !.op = op, !.account_name = account_name,
                     !.connector_name = connector_name, !.keys = keys,
                     !.outcome = outcome, !.result = result]

Done(p, outcome, result) ==
    DoneCall(proc[p].op, proc[p].account_name, proc[p].connector_name,
             proc[p].keys, outcome, result)

\* The finished call d, with the steps that raised in it.
Failed(d, steps) == [d EXCEPT !.failed = steps]

ProcKey(p) == CacheKey(proc[p].account_name, proc[p].connector_name)

\* The event loop runs a coroutine only when no finished call waits to be
\* taken by its caller: the return is the next thing that happens.
Running == \A q \in Procs : proc[q].pc # "done"

\* Callers are interchangeable: a new call is given to p1 when it is free.
CanCall(p) ==
    /\ Running
    /\ p \in scope.callers
    /\ proc[p].pc = "idle"
    /\ (p = "p2" => proc["p1"].pc # "idle")

\* The caller p is free to call op.
Calls(p, op) == CanCall(p) /\ op \in scope.ops

\* A manager-wide lock around initialization: a coroutine is resumed only
\* when no other caller is inside an initialization.
ResumesWhenAlone(p, pcs) ==
    /\ Running
    /\ proc[p].pc \in pcs
    /\ \A q \in Procs \ {p} :
          proc[q].pc \notin {"bootstrap", "refresh", "paper_rules"}

\* A coroutine of p suspended at one of pcs is resumed.
Resumes(p, pcs) == Running /\ proc[p].pc \in pcs

\* The state after construction (lines 32-38), for a run of the given scope.
InitManager ==
    /\ db_manager = scope.db
    /\ connector_cache = <<>>
    /\ orders_recorders = EmptyMap
    /\ funding_recorders = EmptyMap
    /\ status_polling_tasks = {}
    /\ connectors = <<>>
    /\ api_keys = [k \in AllKeys |-> "k1"]
    /\ proc = [p \in Procs |-> IdleProc]

\* A connector with no stored order, on which no load is running.
NoOrders ==
    /\ active_orders = << >>
    /\ in_flight_orders = << >>
    /\ load_pc = "none"

\* A connector as the factory returns it: every task handle is None.
NoNetwork ==
    /\ handles = [h \in Range(StopOrder) |-> 0]
    /\ task_state = << >>
    /\ net_call = [op |-> "none", outcome |-> "none", calls |-> 0]

\* _start_connector_network runs connector code at line 405 only (the other
\* handles wrap coroutines that run later), after two handles are set.
StartFailPoints == {2}

\* The public operations of the manager.
Operations == {"get", "update", "clear", "stop", "stop_all", "refresh_all"}

\* What one run draws its calls from: the callers, the operations they
\* call, the names and key sets they pass, whether the manager has a
\* db_manager, and the handle at which a network stop may raise.
Scope(callers, accounts, venues, keysets, db) ==
    [callers |-> callers, ops |-> Operations, accounts |-> accounts,
     venues |-> venues, keysets |-> keysets, db |-> db, stop_fail |-> {4}]

\* Two callers on one key: a live venue with recorders, a live venue whose
\* keys change, a simulated venue.
ConcurrentScopes ==
    { Scope(Procs, {<<"a">>}, {<<"x">>}, {"k1"}, TRUE),
      Scope(Procs, {<<"a">>}, {<<"x">>}, ApiKeySets, FALSE),
      Scope(Procs, {<<"a">>}, {<<"x", "_paper_trade">>}, {"k1"}, TRUE),
      Scope(Procs, {<<"a">>}, {<<"x", "_paper_trade">>}, {"k1"}, FALSE) }

\* One caller on a perpetual venue, with both recorders.
PerpetualScope == Scope({"p1"}, {<<"a">>}, {<<"x", "_perpetual">>}, {"k1"}, TRUE)

\* One caller, two accounts on two venues each.
AccountsScope ==
    Scope({"p1"}, Accounts, {<<"x">>, <<"x", "_paper_trade">>}, {"k1"}, FALSE)

Init ==
    /\ scope \in ConcurrentScopes \cup {PerpetualScope}
    /\ InitManager
    /\ NoOrders
    /\ NoNetwork

InitSeq ==
    /\ scope \in {AccountsScope, PerpetualScope}
    /\ InitManager
    /\ NoOrders
    /\ NoNetwork

\* ------------------------------------------------- get_connector, creation

\* A bootstrap that fetches the balances before the symbol map.
BootstrapStepsBalancesFirst(connector_name) ==
    << "balances", "symbol_map", "trading_rules" >>
    \o (IF IsPerpetual(connector_name) THEN << "positions" >> ELSE << >>)
    \o (IF db_manager THEN << "load_orders" >> ELSE << >>)

\* A bootstrap that starts the network without loading the stored orders.
BootstrapStepsNoLoad(connector_name) ==
    << "symbol_map", "trading_rules", "balances" >>
    \o (IF IsPerpetual(connector_name) THEN << "positions" >> ELSE << >>)

\* The awaits of lines 283-299 (symbol map, trading rules, balances,
\* positions of a perpetual venue, stored orders when a db_manager is set)
\* follow one another and touch only the new connector, which no other
\* coroutine can reach: they are one suspension, "bootstrap", during which
\* the other coroutines run.  These are the awaited steps, in order.
BootstrapSteps(connector_name) ==
    << "symbol_map", "trading_rules", "balances" >>
    \o (IF IsPerpetual(connector_name) THEN << "positions" >> ELSE << >>)
    \o (IF db_manager THEN << "load_orders" >> ELSE << >>)

\* Lines 301-320: the recorders are attached when a db_manager is set.
RecorderSteps == IF db_manager THEN << "recorders" >> ELSE << >>

\* A bootstrap in which the exception of every step, the load of the stored
\* orders included, leaves _initialize_regular_connector.
PropagatesAll(step) == TRUE

\* The steps whose exception leaves _initialize_regular_connector:
\* _load_existing_orders_from_database catches its own (lines 533-534).
Propagates(step) == step # "load_orders"

\* How _load_existing_orders_from_database can end (line 299): the query
\* returns (TRUE) or raises (FALSE); with no db_manager it is not called
\* (line 298).
LoadOutcomes == IF db_manager THEN BOOLEAN ELSE {TRUE}

\* Lines 533-534: an exception of the load is logged and goes no further.
LoadCaught(loadOk) == IF loadOk THEN {} ELSE {"load_orders"}

\* A simulated path that registers the recorder whether it started or not.
PaperFinishRegisters(m, cache_key, c, recorderOk) ==
    Publish(Initialized(AttachOrdersRecorder(m, cache_key, c), c), cache_key, c)

\* _initialize_paper_trading_connector from the recorder on, then line 272:
\* a recorder that cannot be started is logged and left out.
PaperFinish(m, cache_key, c, recorderOk) ==
    Publish(Initialized(IF recorderOk THEN AttachOrdersRecorder(m, cache_key, c)
                        ELSE m, c),
            cache_key, c)

\* What the simulated path caught and logged: the trading-rule fetch (line
\* 357), the start of a recorder it had to create (line 377).
PaperCaught(m, cache_key, rulesOk, recorderOk) ==
    (IF rulesOk THEN {} ELSE {"paper_rules"})
    \cup (IF ~recorderOk /\ db_manager /\ cache_key \notin DOMAIN m.orders
          THEN {"recorders"} ELSE {})

\* The choices only the simulated path has.
PaperChoices(connector_name) ==
    IF IsPaperTrade(connector_name) THEN BOOLEAN ELSE {TRUE}

\* A cache hit that starts the cached connector's network tasks anew.
GetConnectorCachedRestarts(p) ==
    \E a \in scope.accounts, v \in scope.venues :
        /\ Calls(p, "get")
        /\ InCache(connector_cache, CacheKey(a, v))
        /\ SetState(StartConnectorNetwork(Mgr,
                         CacheGet(connector_cache, CacheKey(a, v)),
                         Len(StartOrder)),
                    [proc EXCEPT ![p] =
                        DoneCall("get", a, v, "none", "returned",
                                 CacheGet(connector_cache, CacheKey(a, v)))])
        /\ UNCHANGED api_keys

\* get_connector on a cache hit (lines 52-53).
GetConnectorCached(p) ==
    \E a \in scope.accounts, v \in scope.venues :
        /\ Calls(p, "get")
        /\ InCache(connector_cache, CacheKey(a, v))
        /\ SetState(Mgr, [proc EXCEPT ![p] =
               DoneCall("get", a, v, "none", "returned",
                        CacheGet(connector_cache, CacheKey(a, v)))])
        /\ UNCHANGED api_keys

\* get_connector on a miss, from cache0 and creds0 (the cache and the
\* credential store as the caller left them): _create_connector, then
\* _initialize_* up to its first await.  A simulated connector whose
\* trading rules need no fetch is initialized and published with no await.
CreateAndInitialize(p, op, a, v, keys, cache0, creds0, paperAwaits, recorderOk) ==
    LET c == Len(connectors) + 1
        m0 == [Mgr EXCEPT !.cache = cache0,
                          !.conns = Append(connectors, CreateConnector(creds0, a, v))]
        call == [IdleProc EXCEPT !.op = op, !.account_name = a,
                                 !.connector_name = v, !.keys = keys,
                                 !.connector = c]
    IN  /\ Len(connectors) < MaxConnectors
        /\ api_keys' = creds0
        /\ IF ~IsPaperTrade(v)
           THEN SetState(m0, [proc EXCEPT ![p] = [call EXCEPT !.pc = "bootstrap"]])
           ELSE IF paperAwaits
           THEN SetState(m0, [proc EXCEPT ![p] = [call EXCEPT !.pc = "paper_rules"]])
           ELSE SetState(PaperFinish(m0, CacheKey(a, v), c, recorderOk),
                         [proc EXCEPT ![p] =
                             Failed(DoneCall(op, a, v, keys, "returned", c),
                                    PaperCaught(m0, CacheKey(a, v), TRUE,
                                                recorderOk))])

\* get_connector on a miss (lines 55-57).
GetConnector(p) ==
    \E a \in scope.accounts, v \in scope.venues :
      \E paperAwaits \in PaperChoices(v), recorderOk \in PaperChoices(v) :
        /\ Calls(p, "get")
        /\ ~InCache(connector_cache, CacheKey(a, v))
        /\ CreateAndInitialize(p, "get", a, v, "none", connector_cache, api_keys,
                               paperAwaits, recorderOk)

\* get_connector on a miss when _create_connector raises: nothing is built.
GetConnectorCreateFails(p) ==
    \E a \in scope.accounts, v \in scope.venues :
        /\ Calls(p, "get")
        /\ ~InCache(connector_cache, CacheKey(a, v))
        /\ SetState(Mgr, [proc EXCEPT ![p] =
               DoneCall("get", a, v, "none", "raised", 0)])
        /\ UNCHANGED api_keys

\* update_connector_keys: store the keys, clear the key's entry, then
\* get_connector (lines 194-211).
UpdateConnectorKeys(p) ==
    \E a \in scope.accounts, v \in scope.venues, keys \in scope.keysets :
      \E paperAwaits \in PaperChoices(v), recorderOk \in PaperChoices(v) :
        LET creds0 == UpdateKeysStore(api_keys, a, v, keys)
            cache0 == UpdateKeysCache(connector_cache, a, v)
        IN  /\ Calls(p, "update")
            /\ IF InCache(cache0, CacheKey(a, v))
               THEN /\ SetState([Mgr EXCEPT !.cache = cache0],
                          [proc EXCEPT ![p] =
                              DoneCall("update", a, v, keys, "returned",
                                       CacheGet(cache0, CacheKey(a, v)))])
                    /\ api_keys' = creds0
               ELSE CreateAndInitialize(p, "update", a, v, keys, cache0, creds0,
                                        paperAwaits, recorderOk)

\* update_connector_keys when _create_connector raises: the keys are stored
\* and the key's entry is cleared, nothing is built.
UpdateConnectorKeysCreateFails(p) ==
    \E a \in scope.accounts, v \in scope.venues, keys \in scope.keysets :
        /\ Calls(p, "update")
        /\ SetState([Mgr EXCEPT !.cache = UpdateKeysCache(connector_cache, a, v)],
                    [proc EXCEPT ![p] =
                        DoneCall("update", a, v, keys, "raised", 0)])
        /\ api_keys' = UpdateKeysStore(api_keys, a, v, keys)

\* ------------------------------------------------- initialization steps

InitCall(p) == proc[p].op \in {"get", "update"}

\* The suspension points of _initialize_regular_connector and
\* _initialize_paper_trading_connector.
InitPcs == {"bootstrap", "refresh", "paper_rules"}

\* One of the bootstrap awaits raises and the exception leaves
\* get_connector: the steps before it ran, the ones after it did not.
BootstrapFails(p) ==
    \E i \in 1..Len(BootstrapSteps(proc[p].connector_name)) :
        /\ InitCall(p)
        /\ Resumes(p, {"bootstrap"})
        /\ Propagates(BootstrapSteps(proc[p].connector_name)[i])
        /\ SetState(Abandon(Ran(Mgr, proc[p].connector,
                                SubSeq(BootstrapSteps(proc[p].connector_name),
                                       1, i - 1)),
                            proc[p].connector),
                    [proc EXCEPT ![p] =
                        Failed(Done(p, "raised", 0),
                               {BootstrapSteps(proc[p].connector_name)[i]})])
        /\ UNCHANGED api_keys

\* The last bootstrap await returned: lines 301-326 run up to the refresh
\* pass's first await.
AtAttach(p) ==
    /\ InitCall(p)
    /\ Resumes(p, {"bootstrap"})

\* The bootstrap steps ran on the connector of p.
Bootstrapped(m, p) ==
    Ran(m, proc[p].connector, BootstrapSteps(proc[p].connector_name))

Attached(m, p) ==
    Ran(AttachFundingRecorder(
            AttachOrdersRecorder(Bootstrapped(m, p), ProcKey(p), proc[p].connector),
            ProcKey(p), proc[p].connector_name, proc[p].connector),
        proc[p].connector, RecorderSteps)

StartNetworkOk(p) ==
    \E loadOk \in LoadOutcomes :
        /\ AtAttach(p)
        /\ SetState(Ran(StartConnectorNetwork(Attached(Mgr, p), proc[p].connector,
                                              Len(StartOrder)),
                        proc[p].connector, << "network" >>),
                    [proc EXCEPT ![p].pc = "refresh",
                                 ![p].failed = LoadCaught(loadOk)])
        /\ UNCHANGED api_keys

\* OrdersRecorder(...).start(connector) raises (line 309): nothing registered.
OrdersRecorderStartFails(p) ==
    /\ AtAttach(p)
    /\ db_manager
    /\ ProcKey(p) \notin DOMAIN orders_recorders
    /\ SetState(Abandon(Bootstrapped(Mgr, p), proc[p].connector),
                [proc EXCEPT ![p] = Failed(Done(p, "raised", 0), {"recorders"})])
    /\ UNCHANGED api_keys

\* FundingRecorder(...).start(connector) raises (line 319): the orders
\* recorder of lines 308-310 stays registered.
FundingRecorderStartFails(p) ==
    /\ AtAttach(p)
    /\ db_manager
    /\ IsPerpetual(proc[p].connector_name)
    /\ ProcKey(p) \notin DOMAIN funding_recorders
    /\ SetState(Abandon(AttachOrdersRecorder(Bootstrapped(Mgr, p), ProcKey(p),
                                             proc[p].connector),
                        proc[p].connector),
                [proc EXCEPT ![p] = Failed(Done(p, "raised", 0), {"recorders"})])
    /\ UNCHANGED api_keys

\* _start_connector_network raises after setting upto handles (lines 415-417).
StartNetworkFails(p) ==
    \E upto \in StartFailPoints :
        /\ AtAttach(p)
        /\ SetState(Abandon(StartConnectorNetwork(Attached(Mgr, p),
                                                  proc[p].connector, upto),
                            proc[p].connector),
                    [proc EXCEPT ![p] = Failed(Done(p, "raised", 0), {"network"})])
        /\ UNCHANGED api_keys

\* _update_connector_state, lines 467-480: its steps ran (ok) or one of them
\* raised; the except of line 479 logs the exception and the call returns.
UpdateConnectorState(ok) == "returned"

\* The refresh pass of line 326 is over; when it returned, the connector is
\* published and returned (lines 272-274).
RefreshReturns(p) ==
    \E ok \in BOOLEAN :
        /\ InitCall(p)
        /\ Resumes(p, {"refresh"})
        /\ IF UpdateConnectorState(ok) = "returned"
           THEN SetState(Publish(Initialized(Ran(Mgr, proc[p].connector,
                                                 << "refresh" >>),
                                             proc[p].connector),
                                 ProcKey(p), proc[p].connector),
                    [proc EXCEPT ![p] =
                        Failed(Done(p, "returned", proc[p].connector),
                               proc[p].failed
                               \cup (IF ok THEN {} ELSE {"refresh"}))])
           ELSE SetState(Abandon(Mgr, proc[p].connector),
                    [proc EXCEPT ![p] =
                        Failed(Done(p, "raised", 0),
                               proc[p].failed \cup {"refresh"})])
        /\ UNCHANGED api_keys

\* The simulated path's trading-rule fetch returns (rulesOk) or raises
\* (caught, line 357); the recorder is attached if it starts, and the
\* connector published.
PaperRulesReturns(p) ==
    \E rulesOk \in BOOLEAN, recorderOk \in BOOLEAN :
        /\ InitCall(p)
        /\ Resumes(p, {"paper_rules"})
        /\ SetState(PaperFinish(Mgr, ProcKey(p), proc[p].connector, recorderOk),
                    [proc EXCEPT ![p] =
                        Failed(Done(p, "returned", proc[p].connector),
                               PaperCaught(Mgr, ProcKey(p), rulesOk, recorderOk))])
        /\ UNCHANGED api_keys

\* ----------------------------------------------------------- clear_cache

ClearCacheCall(p) ==
    \E a \in scope.accounts \cup {None}, v \in scope.venues \cup {None} :
        /\ Calls(p, "clear")
        /\ SetState([Mgr EXCEPT !.cache = ClearCache(connector_cache, a, v)],
                    [proc EXCEPT ![p] =
                        DoneCall("clear", a, v, "none", "returned", 0)])
        /\ UNCHANGED api_keys

\* ------------------------------------------------ stop_connector, stop_all

\* stop_connector for the keys of todo in turn, run up to the next await:
\* from the orders-recorder test (line 607), the funding-recorder test
\* (line 616), or the polling-task and network part (lines 625-640).  The
\* network stop of a connector in failing raises at handle failAt.
RECURSIVE StopFromOrders(_, _, _, _)
RECURSIVE StopFromFunding(_, _, _, _)
RECURSIVE StopFromNetwork(_, _, _, _)

StopFromOrders(m, todo, failing, failAt) ==
    IF todo = <<>>
    THEN [m |-> m, pc |-> "done", todo |-> <<>>]
    ELSE IF Head(todo) \in DOMAIN m.orders
    THEN [m |-> m, pc |-> "stop_orders", todo |-> todo]
    ELSE StopFromFunding(m, todo, failing, failAt)

StopFromFunding(m, todo, failing, failAt) ==
    IF Head(todo) \in DOMAIN m.funding
    THEN [m |-> m, pc |-> "stop_funding", todo |-> todo]
    ELSE StopFromNetwork(m, todo, failing, failAt)

StopFromNetwork(m, todo, failing, failAt) ==
    LET k == Head(todo)
        m1 == [m EXCEPT !.polling = @ \ {k}]
        m2 == IF InCache(m1.cache, k)
              THEN StopConnectorNetwork(m1, CacheGet(m1.cache, k),
                       IF CacheGet(m1.cache, k) \in failing THEN failAt ELSE 0)
              ELSE m1
    IN  StopFromOrders(m2, Tail(todo), failing, failAt)

\* Lines 609-613: the orders recorder's stop() returned (ok) or raised; it
\* is unregistered if stop() returned and the key is still there.
StopOrdersRecorder(m, k, ok) ==
    IF ok /\ k \in DOMAIN m.orders THEN [m EXCEPT !.orders = MapDel(@, k)] ELSE m

\* Lines 618-622: the same for the funding recorder.
StopFundingRecorder(m, k, ok) ==
    IF ok /\ k \in DOMAIN m.funding THEN [m EXCEPT !.funding = MapDel(@, k)] ELSE m

\* stop_connector(k) run to its end: both recorder stops, then the network.
StopRun(m, k, ordersOk, fundingOk, failing, failAt) ==
    StopFromNetwork(StopFundingRecorder(StopOrdersRecorder(m, k, ordersOk),
                                        k, fundingOk),
                    <<k>>, failing, failAt).m

\* The caller after a run of stop_connector that ended or suspended.
Stopping(p, op, a, v, r) ==
    IF r.pc = "done"
    THEN [proc EXCEPT ![p] = DoneCall(op, a, v, "none", "returned", 0)]
    ELSE [proc EXCEPT ![p] =
             [IdleProc EXCEPT !.pc = r.pc, !.op = op, !.account_name = a,
                              !.connector_name = v, !.todo = r.todo]]

\* The network stops that may raise in one run: a stop raises only at a
\* handle it has to cancel.
CanFail(f) ==
    {c \in CacheConns(connector_cache) :
        \E i \in 1..Len(StopOrder) : i >= f /\ StopOrder[i] \in connectors[c].tasks}

Failures ==
    UNION {{[failing |-> F, failAt |-> f] : F \in SUBSET CanFail(f)} :
              f \in scope.stop_fail}

\* stop_connector(account_name, connector_name), lines 597-640.
StopConnector(p) ==
    \E a \in scope.accounts, v \in scope.venues, x \in Failures :
        /\ Calls(p, "stop")
        /\ LET r == StopFromOrders(Mgr, <<CacheKey(a, v)>>, x.failing, x.failAt)
           IN  SetState(r.m, Stopping(p, "stop", a, v, r))
        /\ UNCHANGED api_keys

\* The pairs of line 647, joined again by stop_connector (line 604).
StopAllKeys(cache) ==
    [i \in 1..Len(cache) |->
        CacheKey(SplitKey(cache[i].key)[1], SplitKey(cache[i].key)[2])]

\* stop_all_connectors, lines 642-651.
StopAllConnectors(p) ==
    \E x \in Failures :
        /\ Calls(p, "stop_all")
        /\ LET r == StopFromOrders(Mgr, StopAllKeys(connector_cache),
                                   x.failing, x.failAt)
           IN  SetState(r.m, Stopping(p, "stop_all", None, None, r))
        /\ UNCHANGED api_keys

\* The orders recorder's stop() returned or raised; stop_connector goes on.
StopOrdersReturns(p) ==
    \E ok \in BOOLEAN, x \in Failures :
        /\ Resumes(p, {"stop_orders"})
        /\ LET m1 == StopOrdersRecorder(Mgr, Head(proc[p].todo), ok)
               r == StopFromFunding(m1, proc[p].todo, x.failing, x.failAt)
           IN  SetState(r.m, Stopping(p, proc[p].op, proc[p].account_name,
                                      proc[p].connector_name, r))
        /\ UNCHANGED api_keys

\* The funding recorder's stop() returned or raised (lines 618-622).
StopFundingReturns(p) ==
    \E ok \in BOOLEAN, x \in Failures :
        /\ Resumes(p, {"stop_funding"})
        /\ LET m1 == StopFundingRecorder(Mgr, Head(proc[p].todo), ok)
               r == StopFromNetwork(m1, proc[p].todo, x.failing, x.failAt)
           IN  SetState(r.m, Stopping(p, proc[p].op, proc[p].account_name,
                                      proc[p].connector_name, r))
        /\ UNCHANGED api_keys

\* ------------------------------------------- update_all_connector_states

\* update_all_connector_states, lines 487-492: the loop over the live dict
\* suspends in the refresh of the entry it was given.
RefreshAll(p) ==
    /\ Calls(p, "refresh_all")
    /\ IF connector_cache = <<>>
       THEN SetState(Mgr, [proc EXCEPT ![p] =
                DoneCall("refresh_all", None, None, "none", "returned", 0)])
       ELSE SetState(Mgr, [proc EXCEPT ![p] =
                [IdleProc EXCEPT !.pc = "refresh_entry", !.op = "refresh_all",
                                 !.pos = 1, !.size = Len(connector_cache),
                                 !.connector = connector_cache[1].conn]])
    /\ UNCHANGED api_keys

\* A loop body that gives up at the first entry whose refresh raised.
LoopStopsAtFailure(ok) == ok

\* Lines 488-491: whether the loop goes on after the refresh of an entry
\* that ran (ok) or had a step raise: the exception is caught and logged
\* in _update_connector_state (line 479), and would be at line 490.
LoopGoesOn(ok) == TRUE

\* The call of p ended, with the entries it refreshed and those whose
\* refresh raised.
RefreshDone(p, outcome, refreshed, raising) ==
    [Done(p, outcome, 0) EXCEPT !.refreshed = refreshed, !.raising = raising]

\* An entry's refresh is over: the dict iterator raises RuntimeError when
\* the dict changed size, else it yields the next entry or ends the loop.
RefreshEntryReturns(p) ==
    \E ok \in BOOLEAN :
        LET refreshed == proc[p].refreshed
                         \cup (IF ok THEN {proc[p].connector} ELSE {})
            raising == proc[p].raising
                       \cup (IF ok THEN {} ELSE {proc[p].connector})
        IN  /\ Resumes(p, {"refresh_entry"})
            /\ IF ~LoopGoesOn(ok) \/ Len(connector_cache) # proc[p].size
               THEN SetState(Mgr, [proc EXCEPT ![p] =
                        RefreshDone(p, "raised", refreshed, raising)])
               ELSE IF proc[p].pos >= Len(connector_cache)
               THEN SetState(Mgr, [proc EXCEPT ![p] =
                        RefreshDone(p, "returned", refreshed, raising)])
               ELSE SetState(Mgr, [proc EXCEPT
                        ![p].pos = @ + 1,
                        ![p].connector = connector_cache[proc[p].pos + 1].conn,
                        ![p].refreshed = refreshed,
                        ![p].raising = raising])
            /\ UNCHANGED api_keys

\* The caller takes the outcome of its call and is free for the next one.
Finish(p) ==
    /\ proc[p].pc = "done"
    /\ SetState(Mgr, [proc EXCEPT ![p] = IdleProc])
    /\ UNCHANGED api_keys

Next ==
    \E p \in Procs :
        \/ GetConnectorCached(p)
        \/ GetConnector(p)
        \/ GetConnectorCreateFails(p)
        \/ UpdateConnectorKeys(p)
        \/ UpdateConnectorKeysCreateFails(p)
        \/ BootstrapFails(p)
        \/ StartNetworkOk(p)
        \/ OrdersRecorderStartFails(p)
        \/ FundingRecorderStartFails(p)
        \/ StartNetworkFails(p)
        \/ RefreshReturns(p)
        \/ PaperRulesReturns(p)
        \/ ClearCacheCall(p)
        \/ StopConnector(p)
        \/ StopAllConnectors(p)
        \/ StopOrdersReturns(p)
        \/ StopFundingReturns(p)
        \/ RefreshAll(p)
        \/ RefreshEntryReturns(p)
        \/ Finish(p)

Spec == Init /\ [][Next]_vars

\* Two callers on the keys of two accounts: they get connectors, clear
\* the cache and refresh the cached connectors.
TwoKeysScope ==
    [Scope(Procs, Accounts, {<<"x">>}, {"k1"}, FALSE)
        EXCEPT !.ops = {"get", "clear", "refresh_all"}]

\* One caller on a simulated venue, with a recorder.
PaperScope == Scope({"p1"}, {<<"a">>}, {<<"x", "_paper_trade">>}, {"k1"}, TRUE)

InitTwoKeys ==
    /\ scope \in {TwoKeysScope, PerpetualScope, PaperScope}
    /\ InitManager
    /\ NoOrders
    /\ NoNetwork

\* The event loop runs every coroutine that is ready, in turn: a call of
\* the second caller whose awaits return is resumed, and a finished call
\* is handed to its caller.  Nothing makes an await of the first caller
\* return: its venue may hang for ever.
OtherCallerRuns ==
    /\ SF_vars(StartNetworkOk("p2"))
    /\ SF_vars(RefreshReturns("p2"))
    /\ SF_vars(RefreshEntryReturns("p2"))
    /\ \A p \in Procs : WF_vars(Finish(p))

SpecTwoKeys == InitTwoKeys /\ [][Next]_vars /\ OtherCallerRuns

SpecSeq == InitSeq /\ [][Next]_vars

\* ------------------------------------------- stored orders (lines 494-595)

\* status_mapping, lines 544-551.
status_mapping ==
    [s \in {"SUBMITTED", "OPEN", "PARTIALLY_FILLED", "FILLED", "CANCELLED", "FAILED"} |->
        CASE s = "SUBMITTED" -> "PENDING_CREATE"
          [] s = "OPEN" -> "OPEN"
          [] s = "PARTIALLY_FILLED" -> "PARTIALLY_FILLED"
          [] s = "FILLED" -> "FILLED"
          [] s = "CANCELLED" -> "CANCELED"
          [] s = "FAILED" -> "FAILED"]

\* A lookup that takes an unknown status for a failed order.
OrderStateOfUnknownFailed(status) ==
    IF status \in DOMAIN status_mapping THEN status_mapping[status]
    ELSE "FAILED"

\* status_mapping.get(order_record.status, OrderState.PENDING_CREATE), line 554.
OrderStateOf(status) ==
    IF status \in DOMAIN status_mapping THEN status_mapping[status]
    ELSE "PENDING_CREATE"

\* The members of the OrderType and TradeType enums.
OrderTypes == {"MARKET", "LIMIT", "LIMIT_MAKER", "AMM_SWAP"}
TradeTypes == {"BUY", "SELL", "RANGE"}

\* Lines 557-560: OrderType[name], LIMIT when there is no such member.
OrderTypeOf(name) == IF name \in OrderTypes THEN name ELSE "LIMIT"

\* Lines 563-566: TradeType[name], BUY when there is no such member.
TradeTypeOf(name) == IF name \in TradeTypes THEN name ELSE "BUY"

\* A stored amount is the text str() gives for it: a number, or "None" for
\* a NULL column.  Decimal(text) is the number, or raises InvalidOperation.
DecimalTexts == [t \in {"0", "1", "2"} |-> IF t = "0" THEN 0 ELSE IF t = "1" THEN 1 ELSE 2]

IsDecimal(text) == text \in DOMAIN DecimalTexts

Decimal(text) == IF IsDecimal(text) THEN DecimalTexts[text] ELSE -1

\* The truth value of a stored amount: None and zero are falsy.
Truthy(text) == text \notin {"None", "0"}

\* A conversion in which nothing raises.
ConversionNeverRaises(r) == FALSE

\* _convert_db_order_to_in_flight_order raises on this record: the amount
\* (line 578) or a truthy filled amount (line 590) is not a decimal number.
ConversionRaises(r) ==
    \/ ~IsDecimal(r.amount)
    \/ Truthy(r.filled_amount) /\ ~IsDecimal(r.filled_amount)

\* _convert_db_order_to_in_flight_order, lines 536-595, when it returns,
\* for the fields named here (the pair, the prices and the exchange id are
\* copied likewise): a new InFlightOrder has executed nothing until line
\* 590 says otherwise.
ConvertDbOrder(r) ==
    [client_order_id |-> r.client_order_id,
     order_type |-> OrderTypeOf(r.order_type),
     trade_type |-> TradeTypeOf(r.trade_type),
     amount |-> Decimal(r.amount),
     current_state |-> OrderStateOf(r.status),
     executed_amount_base |-> IF Truthy(r.filled_amount)
                              THEN Decimal(r.filled_amount) ELSE 0]

\* Lines 515-527: every record is converted and put into the index under
\* its client order id; a record whose conversion raises is logged and left
\* out.
LoadOrders(index, records) ==
    LET ids == {records[i].client_order_id :
                   i \in {j \in 1..Len(records) : ~ConversionRaises(records[j])}}
        last(id) == CHOOSE i \in 1..Len(records) :
                        /\ records[i].client_order_id = id
                        /\ ~ConversionRaises(records[i])
                        /\ \A j \in (i + 1)..Len(records) :
                              records[j].client_order_id = id
                              => ConversionRaises(records[j])
    IN  [id \in DOMAIN index \cup ids |->
            IF id \in ids THEN ConvertDbOrder(records[last(id)]) ELSE index[id]]

\* A stored order, before it is given its client order id.
OrderRecord(status, order_type, trade_type, amount, filled_amount) ==
    [client_order_id |-> 0, status |-> status, order_type |-> order_type,
     trade_type |-> trade_type, amount |-> amount, filled_amount |-> filled_amount]

\* The stored orders a run draws from: every status the mapping knows and
\* one it does not know, names that are no member of the enums, a NULL
\* amount and a NULL filled amount.
OrderRecords ==
    {OrderRecord(st, "LIMIT", "BUY", "2", "0") :
        st \in {"SUBMITTED", "OPEN", "CANCELLED", "FAILED", "EXPIRED"}}
    \cup {OrderRecord("PARTIALLY_FILLED", "LIMIT", "SELL", "2", "1"),
          OrderRecord("FILLED", "MARKET", "BUY", "2", "2"),
          OrderRecord("OPEN", "STOP_LOSS", "BUY", "2", "0"),
          OrderRecord("OPEN", "LIMIT", "SHORT", "2", "0"),
          OrderRecord("OPEN", "LIMIT", "BUY", "None", "0"),
          OrderRecord("OPEN", "LIMIT", "BUY", "2", "None")}

\* The results of get_active_orders: up to MaxOrders records, each under
\* its own client order id.
ActiveOrders ==
    UNION {{[i \in 1..n |-> [f[i] EXCEPT !.client_order_id = i]] :
               f \in [1..n -> OrderRecords]} : n \in 0..MaxOrders}

\* A manager with a db_manager loads the stored orders of a new connector.
InitOrders ==
    /\ scope = Scope({}, {<<"a">>}, {<<"x">>}, {"k1"}, TRUE)
    /\ InitManager
    /\ NoNetwork
    /\ active_orders \in ActiveOrders
    /\ in_flight_orders = << >>
    /\ load_pc = "query"

\* _load_existing_orders_from_database, lines 502-531: the query of line 511
\* returned.
LoadExistingOrders ==
    /\ load_pc = "query"
    /\ in_flight_orders' = LoadOrders(in_flight_orders, active_orders)
    /\ load_pc' = "loaded"
    /\ UNCHANGED << managerVars, networkVars, active_orders >>

\* The session or the query raised: logged at lines 533-534.
LoadExistingOrdersFails ==
    /\ load_pc = "query"
    /\ load_pc' = "failed"
    /\ UNCHANGED << managerVars, networkVars, active_orders, in_flight_orders >>

NextOrders == LoadExistingOrders \/ LoadExistingOrdersFails

SpecOrders == InitOrders /\ [][NextOrders]_vars

\* ----------------------------------- network tasks of one connector

\* The place of a handle in the walk of _stop_connector_network.
StopIndex(name) == CHOOSE i \in 1..Len(StopOrder) : StopOrder[i] = name

\* The handles whose cancel may raise: the ones that hold a task.
CancelFailures(h) == {0} \cup {i \in 1..Len(StopOrder) : h[StopOrder[i]] # 0}

\* _stop_connector_network, lines 423-455, on the handles h and the tasks
\* ts: the handles before failAt are cancelled and cleared; the cancel of
\* handle failAt raises, which ends the walk (failAt = 0: nothing raises).
\* A task is live, cancelled, or one whose cancel raised.
StopHandles(h, ts, failAt) ==
    LET cut == IF failAt = 0 THEN Len(StopOrder) + 1 ELSE failAt
        cancelled == {h[StopOrder[i]] : i \in 1..(cut - 1)} \ {0}
    IN  [handles |-> [n \in DOMAIN h |-> IF StopIndex(n) < cut THEN 0 ELSE h[n]],
         tasks |-> [t \in 1..Len(ts) |->
                       IF t \in cancelled THEN "cancelled"
                       ELSE IF failAt # 0 /\ t = h[StopOrder[failAt]]
                       THEN "cancel_raised"
                       ELSE ts[t]]]

\* _start_connector_network, lines 394-417: the stop, then a new task in
\* each of the first upto handles of StartOrder.
StartHandles(h, ts, failAt, upto) ==
    LET stopped == StopHandles(h, ts, failAt)
    IN  [handles |-> [n \in DOMAIN h |->
                         IF \E i \in 1..upto : StartOrder[i] = n
                         THEN Len(ts) + (CHOOSE i \in 1..upto : StartOrder[i] = n)
                         ELSE stopped.handles[n]],
         tasks |-> stopped.tasks \o [i \in 1..upto |-> "live"]]

\* A manager and a connector as the factory returns it.
InitNetwork ==
    /\ scope = Scope({}, {<<"a">>}, {<<"x">>}, {"k1"}, FALSE)
    /\ InitManager
    /\ NoOrders
    /\ NoNetwork

\* _start_connector_network(connector) is called: it returns, or raises at
\* line 405 with upto handles set.
StartNetwork ==
    \E failAt \in CancelFailures(handles),
       upto \in {Len(StartOrder)} \cup StartFailPoints :
        LET r == StartHandles(handles, task_state, failAt, upto)
        IN  /\ net_call.calls < MaxStarts
            /\ handles' = r.handles
            /\ task_state' = r.tasks
            /\ net_call' = [op |-> "start",
                            outcome |-> IF upto = Len(StartOrder)
                                        THEN "returned" ELSE "raised",
                            calls |-> net_call.calls + 1]
            /\ UNCHANGED << managerVars, ordersVars >>

\* _stop_connector_network(connector) is called.
StopNetwork ==
    \E failAt \in CancelFailures(handles) :
        LET r == StopHandles(handles, task_state, failAt)
        IN  /\ handles' = r.handles
            /\ task_state' = r.tasks
            /\ net_call' = [net_call EXCEPT !.op = "stop", !.outcome = "returned"]
            /\ UNCHANGED << managerVars, ordersVars >>

NextNetwork == StartNetwork \/ StopNetwork

SpecNetwork == InitNetwork /\ [][NextNetwork]_vars

\* ================================================================ claims

\* The call of p ended (and p has not yet taken the outcome).
Ended(p, op, outcome) ==
    /\ proc[p].pc = "done"
    /\ proc[p].op = op
    /\ proc[p].outcome = outcome

LiveVenue(p) == ~IsPaperTrade(proc[p].connector_name)

\* C1: while one get_connector(k) is creating or initializing, no second
\* get_connector(k) runs an initialization sequence for the same key.
C1_OneInitializationPerKey ==
    \A p, q \in Procs :
        ~ /\ p # q
          /\ proc[p].op = "get" /\ proc[q].op = "get"
          /\ proc[p].pc \in InitPcs /\ proc[q].pc \in InitPcs
          /\ ProcKey(p) = ProcKey(q)

C3_ReturnedIsCached ==
    \A p \in Procs :
        Ended(p, "get", "returned") =>
            /\ InCache(connector_cache, ProcKey(p))
            /\ CacheGet(connector_cache, ProcKey(p)) = proc[p].result

\* A get_connector for a live venue has just returned the connector it
\* created and initialized.
C3_Witness ==
    \E p \in Procs :
        /\ Ended(p, "get", "returned")
        /\ LiveVenue(p)
        /\ connectors[proc[p].result].tasks = Range(StartOrder)

\* C4: when a required bootstrap step of get_connector(k) fails on the live
\* path, k is not in the cache at the end of the call.
C4_FailedBootstrapNotCached ==
    \A p \in Procs :
        ( /\ Ended(p, "get", "raised")
          /\ LiveVenue(p)
          /\ proc[p].failed \cap {"symbol_map", "trading_rules", "balances",
                                   "positions"} # {} )
        => ~InCache(connector_cache, ProcKey(p))

\* C5: a get_connector that failed leaves no recorder behind: no recorder is
\* registered on a connector whose initialization raised.
C5_NoRecorderOfFailedCall ==
    \A k \in (DOMAIN orders_recorders) \cup (DOMAIN funding_recorders) :
        /\ k \in DOMAIN orders_recorders
               => connectors[orders_recorders[k]].state # "failed"
        /\ k \in DOMAIN funding_recorders
               => connectors[funding_recorders[k]].state # "failed"

\* C6: the connector a successful get_connector returns for a live venue
\* has its five background task handles set.
C6_ReturnedIsRunning ==
    \A p \in Procs :
        (Ended(p, "get", "returned") /\ LiveVenue(p))
        => Range(StartOrder) \subseteq connectors[proc[p].result].tasks

\* C7: when stop_connector(k) has completed, k is not in the cache and has
\* no recorder registered.
C7_StoppedIsRemoved ==
    \A p \in Procs :
        Ended(p, "stop", "returned") =>
            /\ ~InCache(connector_cache, ProcKey(p))
            /\ ProcKey(p) \notin DOMAIN orders_recorders
            /\ ProcKey(p) \notin DOMAIN funding_recorders

\* C8: a stop_connector(k) that follows a completed stop_connector(k)
\* changes nothing, whatever its recorder stops and cancellations do.
C8_SecondStopChangesNothing ==
    \A p \in Procs :
        Ended(p, "stop", "returned") =>
            \A ordersOk \in BOOLEAN, fundingOk \in BOOLEAN, x \in Failures :
                StopRun(Mgr, ProcKey(p), ordersOk, fundingOk,
                        x.failing, x.failAt) = Mgr

\* What C9 asks of clear_cache, by the account and venue of each key.
C9_Removed(cache_key, account_name, connector_name) ==
    IF account_name # None /\ connector_name # None
    THEN SplitKey(cache_key) = << account_name, connector_name >>
    ELSE IF account_name # None
    THEN SplitKey(cache_key)[1] = account_name
    ELSE TRUE

C9_Kept(cache, account_name, connector_name) ==
    SelectSeq(cache, LAMBDA e : ~C9_Removed(e.key, account_name, connector_name))

\* C9: clear_cache(account) removes exactly the entries of that account,
\* clear_cache(account, venue) only that key, clear_cache() every entry;
\* every other entry stays as it was, in its place.
C9_ClearRemovesExactly ==
    [][\A p \in Procs :
          ( /\ proc[p].pc = "idle"
            /\ proc'[p].pc = "done"
            /\ proc'[p].op = "clear"
            /\ (proc'[p].account_name = None => proc'[p].connector_name = None) )
          => connector_cache' = C9_Kept(connector_cache, proc'[p].account_name,
                                        proc'[p].connector_name)]_vars

\* clear_cache(a) has just returned: an entry of a is gone from the cache
\* and an entry of the account whose name extends a is still there.
C9_Witness ==
    \E p \in Procs :
        /\ Ended(p, "clear", "returned")
        /\ proc[p].account_name = <<"a">>
        /\ proc[p].connector_name = None
        /\ \E c \in 1..Len(connectors) :
               /\ connectors[c].account_name = <<"a">>
               /\ connectors[c].state = "initialized"
               /\ c \notin CacheConns(connector_cache)
        /\ \E k \in CacheKeys(connector_cache) : SplitKey(k)[1] = <<"a", "b">>

\* C10: an update_connector_keys(account, venue, keys) in which the factory
\* does not raise stores keys, drops the key's cache entry and has the
\* factory build a new connector from the stored keys in the same step; the
\* connector it returns is that one, and it is the cached one.
C10_Starts(p) ==
    LET d == proc'[p]
        k == CacheKey(d.account_name, d.connector_name)
        c == Len(connectors')
    IN  (proc[p].pc = "idle" /\ d.op = "update" /\ d.outcome # "raised") =>
            /\ Len(connectors') = Len(connectors) + 1
            /\ StoredKeys(api_keys', d.account_name, d.connector_name) = d.keys
            /\ ~IsPaperTrade(d.connector_name) => connectors'[c].api_keys = d.keys
            /\ c \notin CacheConns(connector_cache)
            /\ IF d.pc = "done"
               THEN d.result = c
               ELSE d.connector = c /\ ~InCache(connector_cache', k)

C10_Returns(p) ==
    LET d == proc'[p]
        k == CacheKey(d.account_name, d.connector_name)
    IN  ( /\ proc[p].op = "update" /\ proc[p].pc \in InitPcs
          /\ d.pc = "done" /\ d.outcome = "returned" ) =>
            /\ d.result = proc[p].connector
            /\ InCache(connector_cache', k)
            /\ CacheGet(connector_cache', k) = d.result
            /\ ~IsPaperTrade(d.connector_name)
                   => connectors'[d.result].api_keys = d.keys

C10_UpdateReturnsNewConnector ==
    [][\A p \in Procs : C10_Starts(p) /\ C10_Returns(p)]_vars

\* update_connector_keys has just returned a connector built from the new
\* keys while the instance built from the old keys still exists.
C10_Witness ==
    \E p \in Procs :
        /\ Ended(p, "update", "returned")
        /\ proc[p].keys = "k2"
        /\ connectors[proc[p].result].api_keys = "k2"
        /\ \E c \in 1..Len(connectors) :
               /\ c # proc[p].result
               /\ connectors[c].state = "initialized"
               /\ connectors[c].api_keys = "k1"

\* C11: update_all_connector_states is resilient to per-entry failure: with
\* no other call in flight, whatever entries' refresh raises, the call
\* raises nothing and the refresh of every other cached connector has run.
C11_RefreshAllResilient ==
    \A p \in Procs :
        (proc[p].pc = "done" /\ proc[p].op = "refresh_all")
        => /\ proc[p].outcome = "returned"
           /\ proc[p].raising \subseteq CacheConns(connector_cache)
           /\ proc[p].refreshed = CacheConns(connector_cache) \ proc[p].raising

\* A pass in which one entry's refresh raised and another's ran.
C11_Witness ==
    \E p \in Procs :
        /\ Ended(p, "refresh_all", "returned")
        /\ proc[p].raising # {}
        /\ proc[p].refreshed # {}
        /\ \E i \in 1..Len(connector_cache) :
              /\ connector_cache[i].conn \in proc[p].raising
              /\ \E j \in (i + 1)..Len(connector_cache) :
                    connector_cache[j].conn \in proc[p].refreshed

\* The stored orders whose order type or trade type names no enum member,
\* or whose conversion raises.
C12_Malformed(r) ==
    \/ r.order_type \notin OrderTypes
    \/ r.trade_type \notin TradeTypes
    \/ ConversionRaises(r)

\* C12 as stated: a stored order that cannot be converted, such as one with
\* an invalid order-type string, is skipped, and every other one is loaded.
C12_MalformedSkipped ==
    load_pc = "loaded"
    => DOMAIN in_flight_orders =
          {active_orders[i].client_order_id :
              i \in {j \in 1..Len(active_orders) : ~C12_Malformed(active_orders[j])}}

\* C12, amended: a stored order whose conversion raises (its amount is no
\* decimal number) is skipped and every other one is loaded, whichever
\* orders precede or follow it; an order whose order type or trade type
\* names no enum member is not skipped: it is loaded as a LIMIT or BUY order.
C12_RaisingSkipped ==
    load_pc = "loaded"
    => /\ DOMAIN in_flight_orders =
             {active_orders[i].client_order_id :
                 i \in {j \in 1..Len(active_orders) :
                            /\ active_orders[j].amount \in {"0", "1", "2"}
                            /\ active_orders[j].filled_amount \in {"None", "0", "1", "2"}}}
       /\ \A i \in 1..Len(active_orders) :
             active_orders[i].client_order_id \in DOMAIN in_flight_orders
             => LET o == in_flight_orders[active_orders[i].client_order_id]
                IN  /\ (active_orders[i].order_type \notin OrderTypes
                         => o.order_type = "LIMIT")
                    /\ (active_orders[i].trade_type \notin TradeTypes
                         => o.trade_type = "BUY")

\* Three stored orders, the second with a NULL amount: the first and the
\* third are loaded.
C12_Witness ==
    /\ load_pc = "loaded"
    /\ Len(active_orders) = 3
    /\ active_orders[2].amount = "None"
    /\ DOMAIN in_flight_orders = {1, 3}

\* The runtime status the specification gives for a stored status.
C13_Status(status) ==
    CASE status = "SUBMITTED" -> "PENDING_CREATE"
      [] status = "OPEN" -> "OPEN"
      [] status = "PARTIALLY_FILLED" -> "PARTIALLY_FILLED"
      [] status = "FILLED" -> "FILLED"
      [] status = "CANCELLED" -> "CANCELED"
      [] status = "FAILED" -> "FAILED"
      [] OTHER -> "PENDING_CREATE"

\* C13: the status mapping is total: no stored status makes the conversion
\* fail, and after reconciliation every loaded order has the runtime status
\* mapped from its stored one (pending-create for an unknown one) and the
\* filled amount of its record.
C13_StatusMapped ==
    load_pc = "loaded"
    => \A i \in 1..Len(active_orders) :
          LET r == active_orders[i]
          IN  /\ (IsDecimal(r.amount) /\ IsDecimal(r.filled_amount)
                   => r.client_order_id \in DOMAIN in_flight_orders)
              /\ (r.client_order_id \in DOMAIN in_flight_orders
                   /\ IsDecimal(r.filled_amount))
                  => LET o == in_flight_orders[r.client_order_id]
                     IN  /\ o.current_state = C13_Status(r.status)
                         /\ o.executed_amount_base = DecimalTexts[r.filled_amount]

\* An order of unknown status, a partly filled one and a filled one loaded
\* together.
C13_Witness ==
    /\ load_pc = "loaded"
    /\ \E i, j, k \in DOMAIN in_flight_orders :
          /\ active_orders[i].status = "EXPIRED"
          /\ in_flight_orders[i].current_state = "PENDING_CREATE"
          /\ active_orders[j].status = "PARTIALLY_FILLED"
          /\ in_flight_orders[j].executed_amount_base = 1
          /\ active_orders[k].status = "FILLED"
          /\ in_flight_orders[k].executed_amount_base = 2

\* C14: initializations of distinct keys are independent: while the first
\* caller's call hangs in a venue call that never returns, a call of the
\* second caller whose own awaits return ends: a get_connector for another
\* key publishes its connector and returns (or raises what a step of its
\* own raised), and a call on cached keys is not held up either.
C14_OtherKeyCompletes ==
    (proc["p2"].pc \notin {"idle", "done"})
    ~> (/\ proc["p2"].pc = "done"
        /\ (InitCall("p2") /\ proc["p2"].outcome = "returned"
             => InCache(connector_cache, ProcKey("p2"))))

\* The first caller still hangs in the initialization of one key when the
\* second caller's get_connector for another key has published and returned.
C14_Witness ==
    /\ proc["p1"].pc = "bootstrap"
    /\ Ended("p2", "get", "returned")
    /\ ProcKey("p1") # ProcKey("p2")
    /\ InCache(connector_cache, ProcKey("p2"))
    /\ ~InCache(connector_cache, ProcKey("p1"))

\* C15: _stop_connector_network isolates failures per handle: when the
\* cancel of one handle raises, every other handle is still cancelled and
\* cleared and the stop raises nothing, so a stop_connector that has
\* returned leaves at most the one handle whose cancel raised.
C15_StopIsolatesFailures ==
    \A p \in Procs :
        (proc[p].pc = "done" /\ proc[p].op = "stop"
         /\ InCache(connector_cache, ProcKey(p)))
        => /\ proc[p].outcome = "returned"
           /\ Cardinality(connectors[CacheGet(connector_cache, ProcKey(p))].tasks) <= 1

\* A get_connector or update_connector_keys of p for a simulated venue ended.
C16_PaperEnded(p) ==
    /\ proc[p].pc = "done"
    /\ InitCall(p)
    /\ IsPaperTrade(proc[p].connector_name)

\* C16 as stated: on the simulated path only a recorder failure is
\* tolerated; any other failure propagates and the key is not published.
C16_OtherFailuresPropagate ==
    \A p \in Procs :
        (C16_PaperEnded(p) /\ proc[p].failed \ {"recorders"} # {})
        => /\ proc[p].outcome = "raised"
           /\ ~InCache(connector_cache, ProcKey(p))

\* C16, amended: on the simulated path a failure creating or starting the
\* orders recorder does not abort initialization: the call returns the
\* connector, published under its key, and no recorder is registered for
\* the key; a failure of the trading-rule fetch through the order book
\* tracker is logged and tolerated in the same way; a call that raised
\* (the connector could not be created) has published nothing.
C16_PaperFailuresTolerated ==
    \A p \in Procs :
        C16_PaperEnded(p)
        => /\ (proc[p].failed # {}
               => /\ proc[p].outcome = "returned"
                  /\ InCache(connector_cache, ProcKey(p))
                  /\ CacheGet(connector_cache, ProcKey(p)) = proc[p].result)
           /\ ("recorders" \in proc[p].failed
               => ProcKey(p) \notin DOMAIN orders_recorders)
           /\ (proc[p].outcome = "raised"
               => ~InCache(connector_cache, ProcKey(p)))

\* A simulated connector returned and published although its recorder
\* could not be started.
C16_Witness ==
    \E p \in Procs :
        /\ C16_PaperEnded(p)
        /\ db_manager
        /\ "recorders" \in proc[p].failed
        /\ proc[p].outcome = "returned"
        /\ InCache(connector_cache, ProcKey(p))

\* C17: on the live path, when the state-refresh pass that follows the
\* start of the network tasks fails, initialization is aborted: the call
\* raises and the connector is not published.
C17_RefreshFailureAborts ==
    \A p \in Procs :
        (proc[p].pc = "done" /\ InitCall(p) /\ LiveVenue(p)
         /\ "refresh" \in proc[p].failed)
        => /\ proc[p].outcome = "raised"
           /\ ~InCache(connector_cache, ProcKey(p))

\* The steps of a live initialization in the order the specification gives.
C18_Order ==
    << "symbol_map", "trading_rules", "balances", "positions", "load_orders",
       "recorders", "network", "refresh" >>

\* The documented steps that apply to a venue: positions on a perpetual
\* venue only, reconciliation and recorders with order storage only.
C18_Expected(connector_name) ==
    SelectSeq(C18_Order,
              LAMBDA st : /\ (st = "positions" => IsPerpetual(connector_name))
                         /\ (st \in {"load_orders", "recorders"} => db_manager))

\* C18: within one key's live initialization the steps run in the
\* documented order, each after the one before it has finished, and the
\* connector is published only after all of them.
C18_StepsInOrder ==
    \A c \in 1..Len(connectors) :
        (connectors[c].state # "collected"
         /\ ~IsPaperTrade(connectors[c].connector_name))
        => LET expected == C18_Expected(connectors[c].connector_name)
               ran == connectors[c].steps
           IN  /\ Len(ran) <= Len(expected)
               /\ ran = SubSeq(expected, 1, Len(ran))
               /\ (c \in CacheConns(connector_cache) => ran = expected)

\* A perpetual connector published with order storage: all eight steps ran.
C18_Witness ==
    \E c \in CacheConns(connector_cache) :
        /\ IsPerpetual(connectors[c].connector_name)
        /\ db_manager
        /\ connectors[c].steps = C18_Order

\* Step st is in the log before step later, or later is not in it at all.
C19_Before(log, st, later) ==
    \A j \in 1..Len(log) :
        log[j] = later => \E i \in 1..(j - 1) : log[i] = st

\* C19: with order storage configured, the stored orders of a live
\* connector have been loaded into its in-flight index before any of its
\* background tasks is started and before its first state refresh, which
\* runs the first order-status update.
C19_OrdersLoadedFirst ==
    \A c \in 1..Len(connectors) :
        (db_manager /\ connectors[c].state # "collected"
         /\ ~IsPaperTrade(connectors[c].connector_name))
        => /\ (connectors[c].tasks # {}
               => "load_orders" \in Range(connectors[c].steps))
           /\ C19_Before(connectors[c].steps, "load_orders", "network")
           /\ C19_Before(connectors[c].steps, "load_orders", "refresh")

\* The network tasks of a connector have just been started, its refresh
\* pass has not run yet, and its stored orders are loaded.
C19_Witness ==
    \E p \in Procs :
        /\ db_manager
        /\ proc[p].pc = "refresh"
        /\ connectors[proc[p].connector].tasks = Range(StartOrder)
        /\ "load_orders" \in Range(connectors[proc[p].connector].steps)
        /\ "refresh" \notin Range(connectors[proc[p].connector].steps)

\* C20: _start_connector_network is idempotent: after any number of start
\* calls on one connector, the last of which returned, each of the five
\* named handles holds a live task of its own and every task made by an
\* earlier start has been cancelled (but for a task whose cancel raised).
C20_StartIdempotent ==
    (net_call.op = "start" /\ net_call.outcome = "returned")
    => /\ \A n \in Range(StartOrder) :
             handles[n] # 0 /\ task_state[handles[n]] = "live"
       /\ \A n1, n2 \in Range(StartOrder) :
             handles[n1] = handles[n2] => n1 = n2
       /\ \A t \in 1..Len(task_state) :
             (\A n \in DOMAIN handles : handles[n] # t)
             => task_state[t] \in {"cancelled", "cancel_raised"}

\* The recorders started by an initialization that did not raise.
C21_Recorders(recorders) ==
    {k \in DOMAIN recorders : connectors[recorders[k]].state # "failed"}

\* C21: with order storage configured, the orders recorder registered for
\* a cached live key (by an initialization that did not raise) was started
\* on the very connector the cache holds for that key.
C21_RecorderOnCachedInstance ==
    \A i \in 1..Len(connector_cache) :
        (db_manager
         /\ ~IsPaperTrade(SplitKey(connector_cache[i].key)[2])
         /\ connector_cache[i].key \in C21_Recorders(orders_recorders))
        => orders_recorders[connector_cache[i].key] = connector_cache[i].conn

\* A connector that is not being initialized any more.
C22_Settled(c) ==
    \A p \in Procs : ~(proc[p].pc \in InitPcs /\ proc[p].connector = c)

\* C22: no background task is orphaned: every connector that holds a task
\* handle, its initialization over and not raised, is the instance the
\* cache holds for its key.
C22_NoOrphanedTask ==
    \A c \in 1..Len(connectors) :
        (connectors[c].tasks # {} /\ C22_Settled(c)
         /\ connectors[c].state # "failed")
        => LET k == CacheKey(connectors[c].account_name,
                             connectors[c].connector_name)
           IN  /\ InCache(connector_cache, k)
               /\ CacheGet(connector_cache, k) = c

\* C23: when no initialization is in flight, every key of the orders
\* recorder map and of the funding recorder map (registered by an
\* initialization that did not raise) is a key of the cache.
C23_RecorderKeysCached ==
    (\A p \in Procs : proc[p].pc \notin InitPcs)
    => (C21_Recorders(orders_recorders) \cup C21_Recorders(funding_recorders))
          \subseteq CacheKeys(connector_cache)

\* C24: an invalidation is not undone by an older initialization in
\* flight: once update_connector_keys has published a connector built
\* from the new keys, the cache never again holds an instance of the key
\* that was built before it, from the keys of before.
C24_InvalidationNotUndone ==
    \A i \in 1..Len(connector_cache) :
        LET c == connector_cache[i].conn
        IN  \A c2 \in (c + 1)..Len(connectors) :
                ( /\ connectors[c2].account_name = connectors[c].account_name
                  /\ connectors[c2].connector_name = connectors[c].connector_name
                  /\ connectors[c2].state = "initialized" )
                => connectors[c2].api_keys = connectors[c].api_keys

\* C25: update_all_connector_states completes without raising also when
\* another caller publishes a key or clears one while the loop is
\* suspended inside an entry's refresh.
C25_RefreshAllSurvivesChanges ==
    \A p \in Procs :
        proc[p].op = "refresh_all" => proc[p].outcome # "raised"

\* Caller p calls get_connector for a key that is in the cache.
C26_Hit(p) ==
    /\ proc[p].pc = "idle"
    /\ proc'[p].op = "get"
    /\ InCache(connector_cache, CacheKey(proc'[p].account_name,
                                         proc'[p].connector_name))

\* C26: get_connector for a key that is in the cache returns the cached
\* instance in the same step and has no other effect: no connector is
\* built, no initialization step runs, no task is started, and the cache,
\* the recorder maps and the stored keys are as before.
C26_CachedGetHasNoEffect ==
    [][\A p \in Procs :
          C26_Hit(p)
          => /\ proc'[p].pc = "done"
             /\ proc'[p].outcome = "returned"
             /\ proc'[p].result = CacheGet(connector_cache,
                                           CacheKey(proc'[p].account_name,
                                                    proc'[p].connector_name))
             /\ UNCHANGED << connector_cache, orders_recorders, funding_recorders,
                             status_polling_tasks, connectors, api_keys >>]_vars

\* get_connector has returned a live connector whose tasks are stopped:
\* the cached one, as stop_connector left it.
C26_Witness ==
    \E p \in Procs :
        /\ Ended(p, "get", "returned")
        /\ LiveVenue(p)
        /\ InCache(connector_cache, ProcKey(p))
        /\ CacheGet(connector_cache, ProcKey(p)) = proc[p].result
        /\ connectors[proc[p].result].tasks = {}
\* A call that raised with no failed initialization step: the connector
\* could not be created and there was nothing to initialize.
C27_NotCreated(p) == proc[p].outcome = "raised" /\ proc[p].failed = {}

\* A finished live initialization call in which nothing but the load of the
\* stored orders (and the tolerated refresh pass) failed, the load either
\* skipped for want of a db_manager or caught.
C27_LoadSkippedOrCaught(p) ==
    /\ proc[p].pc = "done"
    /\ InitCall(p)
    /\ LiveVenue(p)
    /\ ~C27_NotCreated(p)
    /\ proc[p].failed \subseteq {"load_orders", "refresh"}
    /\ (db_manager => "load_orders" \in proc[p].failed)

C27_Steps(c) == Range(connectors[c].steps)

\* C27: reconciliation is best-effort on the live path: when no db_manager
\* is set the load of the stored orders is skipped, and when the load fails
\* the failure is caught; in both cases the call does not raise, the
\* remaining steps (recorders when a db_manager is set, network start,
\* refresh) run, and the connector is published under its key.
C27_ReconciliationBestEffort ==
    \A p \in Procs :
        C27_LoadSkippedOrCaught(p)
        => /\ proc[p].outcome = "returned"
           /\ Range(RecorderSteps) \cup {"network", "refresh"}
                  \subseteq C27_Steps(proc[p].result)
           /\ ("load_orders" \in C27_Steps(proc[p].result)) = db_manager
           /\ InCache(connector_cache, ProcKey(p))
           /\ CacheGet(connector_cache, ProcKey(p)) = proc[p].result

\* A get_connector whose load of the stored orders failed returned the
\* connector, published, with its recorder attached and its network started.
C27_Witness ==
    \E p \in Procs :
        /\ Ended(p, "get", "returned")
        /\ LiveVenue(p)
        /\ "load_orders" \in proc[p].failed
        /\ InCache(connector_cache, ProcKey(p))
        /\ CacheGet(connector_cache, ProcKey(p)) = proc[p].result
        /\ ProcKey(p) \in DOMAIN orders_recorders
        /\ connectors[proc[p].result].tasks = Range(StartOrder)

====
